---- MODULE Spec2Model ----
(***************************************************************************)
(* Italian grapheme-to-sound transcription, as implemented twice in the    *)
(* repository:                                                             *)
(*   verb engine  src/utils/add_pronunciation_column.py                    *)
(*   noun engine  src/scripts/add_pronunciation_to_nouns.py                *)
(*                                                                         *)
(* A Python str is modelled as a sequence of one-character strings, so     *)
(* "casa" is <<"c","a","s","a">>.  Python indices are kept 0-based with    *)
(* half-open slices: s[a:b] is Slice(s, a, b).                             *)
(***************************************************************************)
EXTENDS Integers, Sequences, FiniteSets, TLC

VARIABLES
  engine,      \* "verb" or "noun": which implementation transcribes the token
  token,       \* the input: one word-token, apostrophes included
  pc,          \* the position reached inside pronounce_word
  word,        \* the token without its apostrophes (cleaned / word)
  idx,         \* noun engine: the loop variable idx of syllabify
  syllables,   \* the list syllabify builds and returns
  stress,      \* the index stress_index returned, -1 before it has run
  pron_parts,  \* the rendered syllables (pron_parts / rendered)
  output,      \* the string pronounce_word returns for the token
  phrase,      \* the term handed to the engine: words and separators
  tokens,      \* verb engine: the list re.split made of the phrase
  cursor,      \* the 0-based position in tokens (verb) or in phrase (noun)
  pieces,      \* the list of output pieces (pieces / parts)
  result,      \* the string returned for the phrase
  history      \* the calls that have returned: engine, phrase, result

wordVars == <<engine, token, pc, word, idx, syllables, stress, pron_parts, output>>

phraseVars == <<phrase, tokens, cursor, pieces, result, history>>

vars == <<wordVars, phraseVars>>

----------------------------------------------------------------------------
(* Bounds of the model. *)

\* Every token over Alphabet of at most MaxLen characters is an input.
MaxLen == 4

\* Every token made of at most MaxUnits of the Chunks is an input.
MaxUnits == 3

\* Every phrase over PhraseAlphabet of at most MaxPhraseLen characters is an
\* input.
MaxPhraseLen == 4

\* A behaviour of repeated calls makes at most MaxCalls calls.
MaxCalls == 3

----------------------------------------------------------------------------
(* Python string primitives. *)

\* s[a:b] for 0 <= a, with b clipped to len(s) as Python does
Slice(s, a, b) == SubSeq(s, a + 1, IF b > Len(s) THEN Len(s) ELSE b)

\* s[a:]
SliceFrom(s, a) == SubSeq(s, a + 1, Len(s))

Max(S) == CHOOSE x \in S : \A y \in S : y <= x

Min(S) == CHOOSE x \in S : \A y \in S : x <= y

UpperLetters ==
  << "A", "B", "C", "D", "E", "F", "G", "H", "I", "J", "K", "L", "M",
     "N", "O", "P", "Q", "R", "S", "T", "U", "V", "W", "X", "Y", "Z",
     "À", "È", "É", "Ì", "Ò", "Ó", "Ù" >>

LowerLetters ==
  << "a", "b", "c", "d", "e", "f", "g", "h", "i", "j", "k", "l", "m",
     "n", "o", "p", "q", "r", "s", "t", "u", "v", "w", "x", "y", "z",
     "à", "è", "é", "ì", "ò", "ó", "ù" >>

\* str.lower() of one character
LowerCh(c) ==
  IF \E i \in 1..Len(UpperLetters) : UpperLetters[i] = c
  THEN LowerLetters[CHOOSE i \in 1..Len(UpperLetters) : UpperLetters[i] = c]
  ELSE c

\* str.upper() of one character
UpperCh(c) ==
  IF \E i \in 1..Len(LowerLetters) : LowerLetters[i] = c
  THEN UpperLetters[CHOOSE i \in 1..Len(LowerLetters) : LowerLetters[i] = c]
  ELSE c

\* str.lower()
lower(s) == [i \in 1..Len(s) |-> LowerCh(s[i])]

\* str.upper()
upper(s) == [i \in 1..Len(s) |-> UpperCh(s[i])]

\* NFD decomposition followed by removal of the combining marks (category
\* Mn), for one precomposed character: the base letter remains.
StripAccentsCh(c) ==
  CASE c \in {"à"} -> "a"
    [] c \in {"è", "é"} -> "e"
    [] c \in {"ì"} -> "i"
    [] c \in {"ò", "ó"} -> "o"
    [] c \in {"ù"} -> "u"
    [] c \in {"À"} -> "A"
    [] c \in {"È", "É"} -> "E"
    [] c \in {"Ì"} -> "I"
    [] c \in {"Ò", "Ó"} -> "O"
    [] c \in {"Ù"} -> "U"
    [] OTHER -> c

\* strip_accents(text), both engines (the two definitions are the same)
strip_accents(text) == [i \in 1..Len(text) |-> StripAccentsCh(text[i])]

\* str.replace("'", "")
RECURSIVE RemoveApostrophes(_)
RemoveApostrophes(s) ==
  IF s = <<>> THEN <<>>
  ELSE IF Head(s) = "'" THEN RemoveApostrophes(Tail(s))
       ELSE <<Head(s)>> \o RemoveApostrophes(Tail(s))

\* the concatenation of a sequence of strings
RECURSIVE Concat(_)
Concat(ss) == IF ss = <<>> THEN <<>> ELSE Head(ss) \o Concat(Tail(ss))

\* sep.join(parts)
RECURSIVE Join(_, _)
Join(sep, parts) ==
  IF parts = <<>> THEN <<>>
  ELSE IF Len(parts) = 1 THEN parts[1]
       ELSE parts[1] \o sep \o Join(sep, Tail(parts))

----------------------------------------------------------------------------
(* Verb engine: syllabifier and stress locator. *)

VOWELS_WITH_ACCENTS ==
  {"a", "e", "i", "o", "u", "à", "è", "é", "ì", "ò", "ù"}

ALLOWED_ONSETS_verb ==
  { <<"b">>, <<"c">>, <<"d">>, <<"f">>, <<"g">>, <<"h">>, <<"l">>, <<"m">>,
    <<"n">>, <<"p">>, <<"q">>, <<"r">>, <<"s">>, <<"t">>, <<"v">>, <<"z">>,
    <<"b","l">>, <<"b","r">>, <<"c","h">>, <<"c","l">>, <<"c","r">>,
    <<"d","r">>, <<"f","l">>, <<"f","r">>, <<"g","h">>, <<"g","l">>,
    <<"g","n">>, <<"g","r">>, <<"g","u">>, <<"p","l">>, <<"p","r">>,
    <<"p","s">>, <<"q","u">>, <<"s","c">>, <<"s","f">>, <<"s","l">>,
    <<"s","m">>, <<"s","n">>, <<"s","p">>, <<"s","r">>, <<"s","t">>,
    <<"s","v">>, <<"t","r">>, <<"v","r">>, <<"s","b","r">>, <<"s","c","h">>,
    <<"s","c","i">>, <<"s","c","l">>, <<"s","c","r">>, <<"s","d","r">>,
    <<"s","f","l">>, <<"s","f","o">>, <<"s","f","r">>, <<"s","g","l">>,
    <<"s","g","n">>, <<"s","g","r">>, <<"s","g","u">>, <<"s","p","l">>,
    <<"s","p","r">>, <<"s","q","u">>, <<"s","t","r">>, <<"s","v","i">> }

\* a cut that gives the whole cluster to the next syllable
split_cluster_allOnset(cluster) == 0

\* a cut that always gives the next syllable the last consonant alone
split_cluster_lastOnly(cluster) == IF cluster = <<>> THEN 0 ELSE Len(cluster) - 1

\* the index at which the cluster is cut: cluster[:split] is the coda of the
\* previous syllable and cluster[split:] the onset of the next
split_cluster(cluster) ==
  IF cluster = <<>> THEN 0
  ELSE LET cl == strip_accents(lower(cluster))
           length == Len(cl)
           ks == {k \in 1..length : SliceFrom(cl, length - k) \in ALLOWED_ONSETS_verb}
       IN IF ks # {} THEN length - Max(ks) ELSE length - 1

\* re.finditer('[aeiouàèéìòù]+', s): the spans <<start, end>> of the maximal
\* vowel runs of s, from left to right
RECURSIVE VowelRunsFrom(_, _)
VowelRunsFrom(s, from) ==
  LET starts == {i \in from..(Len(s) - 1) : s[i + 1] \in VOWELS_WITH_ACCENTS}
  IN IF starts = {} THEN <<>>
     ELSE LET start == Min(starts)
              stops == {j \in start..(Len(s) - 1) : s[j + 1] \notin VOWELS_WITH_ACCENTS}
              end == IF stops = {} THEN Len(s) ELSE Min(stops)
          IN <<(<<start, end>>)>> \o VowelRunsFrom(s, end)

\* the for loop of syllabify, from match number n (0-based, idx in the code) on
RECURSIVE SyllabifyMatches(_, _, _, _, _)
SyllabifyMatches(w, matches, n, prev_end, sylls) ==
  IF n = Len(matches)
  THEN LET trailing == SliceFrom(w, prev_end)
       IN IF trailing # <<>>
          THEN [sylls EXCEPT ![Len(sylls)] = @ \o trailing]
          ELSE sylls
  ELSE LET start == matches[n + 1][1]
           end == matches[n + 1][2]
           cluster == Slice(w, prev_end, start)
           split == IF n = 0 THEN 0 ELSE split_cluster(cluster)
           before == IF n # 0 /\ split > 0
                     THEN [sylls EXCEPT ![Len(sylls)] = @ \o Slice(cluster, 0, split)]
                     ELSE sylls
           onset == SliceFrom(cluster, split)
           syllable == onset \o Slice(w, start, end)
       IN SyllabifyMatches(w, matches, n + 1, end, Append(before, syllable))

syllabify_verb(w) ==
  LET lowered == strip_accents(lower(w))
      matches == VowelRunsFrom(lowered, 0)
  IN IF matches = <<>> THEN <<w>>
     ELSE SyllabifyMatches(w, matches, 0, 0, <<>>)

AccentedVowels_verb == {"à", "è", "é", "ì", "ò", "ù"}

\* stress_index without the test for a single syllable
stress_index_verb_noSingle(w, sylls) ==
  LET accented == {n \in 0..(Len(sylls) - 1) :
                     \E k \in 1..Len(sylls[n + 1]) :
                        LowerCh(sylls[n + 1][k]) \in AccentedVowels_verb}
  IN IF accented # {} THEN Min(accented) ELSE Len(sylls) - 2

\* stress_index with the loop over the accent marks left out
stress_index_verb_positional(w, sylls) ==
  IF Len(sylls) = 1 THEN 0 ELSE Len(sylls) - 2

stress_index_verb(w, sylls) ==
  LET accented == {n \in 0..(Len(sylls) - 1) :
                     \E k \in 1..Len(sylls[n + 1]) :
                        LowerCh(sylls[n + 1][k]) \in AccentedVowels_verb}
  IN IF accented # {} THEN Min(accented)
     ELSE IF Len(sylls) = 1 THEN 0
     ELSE Len(sylls) - 2

----------------------------------------------------------------------------
(* Noun engine: syllabifier and stress locator. *)

is_vowel(ch) == StripAccentsCh(LowerCh(ch)) \in {"a", "e", "i", "o", "u"}

ALLOWED_ONSETS_noun ==
  { <<"b","r">>, <<"b","l">>, <<"c","r">>, <<"c","l">>, <<"d","r">>,
    <<"f","r">>, <<"f","l">>, <<"g","r">>, <<"g","l">>, <<"g","n">>,
    <<"p","r">>, <<"p","l">>, <<"t","r">>, <<"v","r">> }

\* the number of consonants of the cluster that stay with the current syllable
\* a coda length that takes back the last character of the nucleus
determine_coda_length_retreats(cluster, is_final) == -1

\* the whole cluster kept as the coda of the current syllable
determine_coda_length_all(cluster, is_final) == Len(cluster)

determine_coda_length(cluster, is_final) ==
  LET cluster_clean == strip_accents(lower(cluster))
  IN IF cluster = <<>> THEN 0
     ELSE IF is_final THEN Len(cluster)
     ELSE IF Len(cluster) = 1 THEN 0
     ELSE IF cluster_clean[1] = "s" THEN 1
     ELSE IF Len(cluster_clean) = 2
          THEN IF cluster_clean \in ALLOWED_ONSETS_noun THEN 0
               ELSE IF cluster_clean[2] \in {"l", "r"} THEN 0
               ELSE 1
     ELSE Len(cluster) - 2

\* while n < length and is_vowel(w[n]) = want: n += 1; the value n ends with
ScanWhile(w, n, want) ==
  LET stops == {j \in n..(Len(w) - 1) : is_vowel(w[j + 1]) # want}
  IN IF stops = {} THEN Len(w) ELSE Min(stops)

\* an iteration that appends word[start:cluster_start], without the coda
SyllabifyIteration_dropsCoda(w, n) ==
  LET after_onset == ScanWhile(w, n, FALSE)
      cluster_start == ScanWhile(w, after_onset, TRUE)
      cluster_end == ScanWhile(w, cluster_start, FALSE)
      cluster == Slice(w, cluster_start, cluster_end)
      keep == determine_coda_length(cluster, cluster_end = Len(w))
  IN << Slice(w, n, cluster_start), cluster_start + keep >>

\* an iteration that appends an empty syllable and leaves idx where it was
SyllabifyIteration_stalls(w, n) == << <<>>, n >>

\* one iteration of the while loop of syllabify: the syllable it appends and
\* the value it leaves in idx
SyllabifyIteration(w, n) ==
  LET start == n
      after_onset == ScanWhile(w, n, FALSE)
      cluster_start == ScanWhile(w, after_onset, TRUE)
      cluster_end == ScanWhile(w, cluster_start, FALSE)
      cluster == Slice(w, cluster_start, cluster_end)
      keep == determine_coda_length(cluster, cluster_end = Len(w))
  IN << Slice(w, start, cluster_start + keep), cluster_start + keep >>

AccentedVowels_noun == {"à", "è", "é", "ì", "ò", "ó", "ù"}

\* stress_index without the test of the last character
stress_index_noun_alwaysFinal(sylls) ==
  LET accented == {n \in 0..(Len(sylls) - 1) :
                     \E k \in 1..Len(sylls[n + 1]) :
                        sylls[n + 1][k] \in AccentedVowels_noun}
  IN IF accented # {} THEN Min(accented)
     ELSE IF sylls = <<>> THEN 0
     ELSE Len(sylls) - 1

stress_index_noun(sylls) ==
  LET accented == {n \in 0..(Len(sylls) - 1) :
                     \E k \in 1..Len(sylls[n + 1]) :
                        sylls[n + 1][k] \in AccentedVowels_noun}
      last == sylls[Len(sylls)]
  \* unicodedata.combining(ch) # 0 never holds: the word is NFC-normalised
  IN IF accented # {} THEN Min(accented)
     ELSE IF sylls = <<>> THEN 0
     ELSE IF LowerCh(StripAccentsCh(last[Len(last)])) \in {"a", "e", "i", "o", "u"}
          THEN (IF Len(sylls) - 2 > 0 THEN Len(sylls) - 2 ELSE 0)
     ELSE Len(sylls) - 1

----------------------------------------------------------------------------
(* Verb engine: sound mapper. *)

NUCLEUS_MAP ==
  [k \in { <<"i","a">>, <<"i","e">>, <<"i","o">>, <<"i","u">>, <<"u","a">>,
           <<"u","o">>, <<"u","i">>, <<"u","e">>, <<"a","i">>, <<"e","i">>,
           <<"o","i">>, <<"a","u">>, <<"e","u">> } |->
     CASE k = <<"i","a">> -> <<"y","a","h">>
       [] k = <<"i","e">> -> <<"y","e","h">>
       [] k = <<"i","o">> -> <<"y","o","h">>
       [] k = <<"i","u">> -> <<"y","o","o">>
       [] k = <<"u","a">> -> <<"w","a","h">>
       [] k = <<"u","o">> -> <<"w","o","h">>
       [] k = <<"u","i">> -> <<"w","e","e">>
       [] k = <<"u","e">> -> <<"w","e","h">>
       [] k = <<"a","i">> -> <<"e","y","e">>
       [] k = <<"e","i">> -> <<"a","y">>
       [] k = <<"o","i">> -> <<"o","y">>
       [] k = <<"a","u">> -> <<"o","w">>
       [] k = <<"e","u">> -> <<"e","h","-","o","o">>]

CONSONANT_MAP ==
  [b |-> <<"b">>, d |-> <<"d">>, f |-> <<"f">>, l |-> <<"l">>, m |-> <<"m">>,
   n |-> <<"n">>, p |-> <<"p">>, r |-> <<"r">>, s |-> <<"s">>, t |-> <<"t">>,
   v |-> <<"v">>, z |-> <<"t","s">>, x |-> <<"k","s">>, j |-> <<"y">>,
   k |-> <<"k">>, w |-> <<"w">>, y |-> <<"y">>, c |-> <<"k">>, g |-> <<"g">>,
   h |-> <<>>]

\* CONSONANT_MAP.get(ch, ch)
ConsonantMapGet(ch) ==
  IF ch \in DOMAIN CONSONANT_MAP THEN CONSONANT_MAP[ch] ELSE <<ch>>

\* s.startswith(tuple of one-character prefixes)
StartsWithAny(s, firsts) == s # <<>> /\ s[1] \in firsts

\* the index of the first vowel of s, or -1
first_vowel_index(s) ==
  LET found == {n \in 0..(Len(s) - 1) :
                  StripAccentsCh(LowerCh(s[n + 1])) \in VOWELS_WITH_ACCENTS}
  IN IF found = {} THEN -1 ELSE Min(found)

\* <<onset, nucleus, coda>> of a syllable
split_syllable_components(s) ==
  LET n == first_vowel_index(s)
      stops == {j \in n..(Len(s) - 1) :
                  StripAccentsCh(LowerCh(s[j + 1])) \notin VOWELS_WITH_ACCENTS}
      j == IF stops = {} THEN Len(s) ELSE Min(stops)
  IN IF n = -1 THEN <<s, <<>>, <<>>>>
     ELSE <<Slice(s, 0, n), Slice(s, n, j), SliceFrom(s, j)>>

\* the while loop of map_onset from position i on
RECURSIVE MapOnsetFrom(_, _, _)
MapOnsetFrom(onset_norm, nucleus_norm, i) ==
  IF i >= Len(onset_norm) THEN <<>>
  ELSE
    LET chunk3 == Slice(onset_norm, i, i + 3)
        chunk2 == Slice(onset_norm, i, i + 2)
        ch == onset_norm[i + 1]
        front == StartsWithAny(nucleus_norm, {"e", "i"})
    IN IF chunk3 = <<"g","l","i">> /\ StartsWithAny(nucleus_norm, {"a", "e", "o", "u"})
         THEN <<"l","y">> \o MapOnsetFrom(onset_norm, nucleus_norm, i + 3)
       ELSE IF chunk2 = <<"g","l">> /\ StartsWithAny(nucleus_norm, {"i"})
         THEN <<"l","y">> \o MapOnsetFrom(onset_norm, nucleus_norm, i + 2)
       ELSE IF chunk2 = <<"g","n">>
         THEN <<"n","y">> \o MapOnsetFrom(onset_norm, nucleus_norm, i + 2)
       ELSE IF chunk2 = <<"s","c">>
         THEN (IF front THEN <<"s","h">> ELSE <<"s","k">>)
              \o MapOnsetFrom(onset_norm, nucleus_norm, i + 2)
       ELSE IF chunk2 = <<"c","h">>
         THEN <<"k">> \o MapOnsetFrom(onset_norm, nucleus_norm, i + 2)
       ELSE IF chunk2 = <<"g","h">>
         THEN <<"g">> \o MapOnsetFrom(onset_norm, nucleus_norm, i + 2)
       ELSE IF chunk2 = <<"q","u">>
         THEN <<"k","w">> \o MapOnsetFrom(onset_norm, nucleus_norm, i + 2)
       ELSE IF chunk2 = <<"g","u">> /\ StartsWithAny(nucleus_norm, {"a", "e", "i", "o"})
         THEN <<"g","w">> \o MapOnsetFrom(onset_norm, nucleus_norm, i + 2)
       ELSE IF ch = "c"
         THEN (IF front THEN <<"c","h">> ELSE <<"k">>)
              \o MapOnsetFrom(onset_norm, nucleus_norm, i + 1)
       ELSE IF ch = "g"
         THEN (IF front THEN <<"j">> ELSE <<"g">>)
              \o MapOnsetFrom(onset_norm, nucleus_norm, i + 1)
       ELSE ConsonantMapGet(ch) \o MapOnsetFrom(onset_norm, nucleus_norm, i + 1)

map_onset(onset, nucleus) ==
  MapOnsetFrom(strip_accents(lower(onset)), strip_accents(lower(nucleus)), 0)

\* the sound of one vowel of a nucleus that holds no diphthong
BaseVowelSound(ch) ==
  LET base == StripAccentsCh(LowerCh(ch))
  IN CASE base = "a" -> <<"a","h">>
       [] base = "e" -> <<"e","h">>
       [] base = "i" -> <<"e","e">>
       [] base = "o" -> <<"o","h">>
       [] base = "u" -> <<"o","o">>
       [] base = "y" -> <<"e","e">>
       [] OTHER -> <<base>>

\* a mapping that knows no diphthong
map_vowel_baseOnly(nucleus) ==
  Concat([i \in 1..Len(nucleus) |-> BaseVowelSound(nucleus[i])])

RECURSIVE map_vowel(_)
map_vowel(nucleus) ==
  IF nucleus = <<>> THEN <<>>
  ELSE
    LET nucleus_norm == strip_accents(lower(nucleus))
        lengths == {length \in 2..Len(nucleus_norm) :
                      Slice(nucleus_norm, 0, length) \in DOMAIN NUCLEUS_MAP}
    IN IF nucleus_norm \in DOMAIN NUCLEUS_MAP THEN NUCLEUS_MAP[nucleus_norm]
       ELSE IF lengths # {}
         THEN NUCLEUS_MAP[Slice(nucleus_norm, 0, Max(lengths))]
              \o map_vowel(SliceFrom(nucleus, Max(lengths)))
       ELSE Concat([i \in 1..Len(nucleus) |-> BaseVowelSound(nucleus[i])])

\* the while loop of map_coda from position i on
RECURSIVE MapCodaFrom(_, _)
MapCodaFrom(coda_norm, i) ==
  IF i >= Len(coda_norm) THEN <<>>
  ELSE
    LET chunk2 == Slice(coda_norm, i, i + 2)
        ch == coda_norm[i + 1]
    IN IF chunk2 = <<"g","n">> THEN <<"n","y">> \o MapCodaFrom(coda_norm, i + 2)
       ELSE IF chunk2 = <<"g","l">> THEN <<"l">> \o MapCodaFrom(coda_norm, i + 2)
       ELSE IF chunk2 = <<"s","c">> THEN <<"s","k">> \o MapCodaFrom(coda_norm, i + 2)
       ELSE (CASE ch = "c" -> <<"k">>
               [] ch = "g" -> <<"g">>
               [] ch = "z" -> <<"t","s">>
               [] ch = "h" -> <<>>
               [] OTHER -> ConsonantMapGet(ch))
            \o MapCodaFrom(coda_norm, i + 1)

map_coda(coda) == MapCodaFrom(strip_accents(lower(coda)), 0)

\* re.sub(r'([yw])\\1+', r'\\1', s).  In a raw string the doubled backslash
\* is the regex for one literal backslash, so the pattern is: y or w, then a
\* backslash character, then one or more characters "1"; the replacement is
\* a backslash followed by "1".  It is no back-reference.
RECURSIVE GlideSub(_)
GlideSub(s) ==
  IF s = <<>> THEN <<>>
  ELSE IF Len(s) >= 3 /\ s[1] \in {"y", "w"} /\ s[2] = "\\" /\ s[3] = "1"
    THEN LET others == {j \in 3..Len(s) : s[j] # "1"}
             stop == IF others = {} THEN Len(s) + 1 ELSE Min(others)
         IN <<"\\", "1">> \o GlideSub(SubSeq(s, stop, Len(s)))
  ELSE <<s[1]>> \o GlideSub(Tail(s))

convert_syllable(syllable) ==
  LET parts == split_syllable_components(syllable)
      onset_sound == map_onset(parts[1], parts[2])
      nucleus_sound == map_vowel(parts[2])
      coda_sound == map_coda(parts[3])
  IN GlideSub(onset_sound \o nucleus_sound \o coda_sound)

----------------------------------------------------------------------------
(* Noun engine: sound mapper. *)

\* vowel_sound(vowel, next_char); next_char is <<>> for the empty string and
\* a one-character string otherwise
vowel_sound(vowel_in, next_in) ==
  LET vowel == StripAccentsCh(LowerCh(vowel_in))
      next_char == IF next_in = <<>> THEN "" ELSE StripAccentsCh(LowerCh(next_in[1]))
      base == CASE vowel = "a" -> <<"a","h">>
                [] vowel = "e" -> <<"e","h">>
                [] vowel = "i" -> <<"e","e">>
                [] vowel = "o" -> <<"o","h">>
                [] vowel = "u" -> <<"o","o">>
                [] OTHER -> <<vowel>>
  IN IF vowel = "i" /\ next_char \in {"a", "e", "o", "u"}
       THEN (CASE next_char = "a" -> <<"y","a","h">>
               [] next_char = "e" -> <<"y","e","h">>
               [] next_char = "o" -> <<"y","o","h">>
               [] next_char = "u" -> <<"y","o","o">>)
     ELSE IF vowel = "u" /\ next_char \in {"a", "e", "o"}
       THEN (CASE next_char = "a" -> <<"w","a","h">>
               [] next_char = "e" -> <<"w","e","h">>
               [] next_char = "o" -> <<"w","o","h">>)
     ELSE IF vowel = "e" /\ next_char = "i" THEN <<"a","y">>
     ELSE IF vowel = "a" /\ next_char = "i" THEN <<"e","y","e">>
     ELSE IF vowel = "o" /\ next_char = "i" THEN <<"o","y">>
     ELSE IF vowel = "u" /\ next_char = "i" THEN <<"w","e","e">>
     ELSE base

\* plain[i:].startswith(prefix)
StartsWithAt(plain, i, prefix) == Slice(plain, i, i + Len(prefix)) = prefix

\* i < length and plain[i] in chars
CharAtIn(plain, i, chars) == i < Len(plain) /\ plain[i + 1] \in chars

\* the while loop of syllable_to_pronunciation from position i on
RECURSIVE PronunciationFrom(_, _)
PronunciationFrom(plain, i) ==
  IF i >= Len(plain) THEN <<>>
  ELSE
    LET length == Len(plain)
        ch == plain[i + 1]
        next_char == IF CharAtIn(plain, i + 1, {"a", "e", "i", "o", "u"})
                     THEN <<plain[i + 2]>> ELSE <<>>
    IN IF StartsWithAt(plain, i, <<"s","c","h">>)
         THEN <<"s","k">> \o PronunciationFrom(plain, i + 3)
       ELSE IF StartsWithAt(plain, i, <<"s","c","i">>)
               /\ CharAtIn(plain, i + 3, {"a", "o", "u"})
         THEN <<"s","h">> \o PronunciationFrom(plain, i + 3)
       ELSE IF StartsWithAt(plain, i, <<"s","c">>) /\ i + 2 <= length
               /\ (i + 2 = length \/ plain[i + 3] \in {"e", "i"})
         THEN <<"s","h">> \o PronunciationFrom(plain, i + 2)
       ELSE IF StartsWithAt(plain, i, <<"s","c">>)
         THEN <<"s","k">> \o PronunciationFrom(plain, i + 2)
       ELSE IF StartsWithAt(plain, i, <<"g","l","i">>)
         THEN <<"l","y">> \o PronunciationFrom(plain, i + 3)
       ELSE IF StartsWithAt(plain, i, <<"g","n">>)
         THEN <<"n","y">> \o PronunciationFrom(plain, i + 2)
       ELSE IF StartsWithAt(plain, i, <<"c","h">>)
         THEN <<"k">> \o PronunciationFrom(plain, i + 2)
       ELSE IF StartsWithAt(plain, i, <<"g","h">>)
         THEN <<"g">> \o PronunciationFrom(plain, i + 2)
       ELSE IF StartsWithAt(plain, i, <<"q","u">>)
         THEN <<"k","w">> \o PronunciationFrom(plain, i + 2)
       ELSE IF StartsWithAt(plain, i, <<"g","u">>)
         THEN (IF CharAtIn(plain, i + 2, {"e", "i"}) THEN <<"g">> ELSE <<"g","w">>)
              \o PronunciationFrom(plain, i + 2)
       ELSE IF ch = "c"
         THEN IF CharAtIn(plain, i + 1, {"i"})
                THEN <<"c","h">> \o PronunciationFrom(plain, i + 2)
              ELSE IF CharAtIn(plain, i + 1, {"e", "i"})
                THEN <<"c","h">> \o PronunciationFrom(plain, i + 1)
              ELSE <<"k">> \o PronunciationFrom(plain, i + 1)
       ELSE IF ch = "g"
         THEN IF CharAtIn(plain, i + 1, {"i"})
                THEN <<"j">> \o PronunciationFrom(plain, i + 2)
              ELSE IF CharAtIn(plain, i + 1, {"e", "i"})
                THEN <<"j">> \o PronunciationFrom(plain, i + 1)
              ELSE <<"g">> \o PronunciationFrom(plain, i + 1)
       ELSE IF ch = "z"
         THEN IF CharAtIn(plain, i + 1, {"z"})
                THEN <<"d","z">> \o PronunciationFrom(plain, i + 2)
              ELSE <<"d","z">> \o PronunciationFrom(plain, i + 1)
       ELSE IF ch = "h"
         THEN PronunciationFrom(plain, i + 1)
       ELSE IF ch \in {"a", "e", "i", "o", "u"}
         THEN vowel_sound(ch, next_char)
              \o PronunciationFrom(plain, IF next_char # <<>> THEN i + 2 ELSE i + 1)
       ELSE <<ch>> \o PronunciationFrom(plain, i + 1)

\* the noun engine rendering a syllable as the verb engine does
syllable_to_pronunciation_asVerb(syllable) == convert_syllable(syllable)

syllable_to_pronunciation(syllable) ==
  PronunciationFrom(strip_accents(lower(syllable)), 0)

----------------------------------------------------------------------------
(* Inputs. *)

Alphabet == {"a", "i", "à", "s", "c", "r"}

\* every string over Alphabet of at most MaxLen characters
BoundedWords == UNION {[1..n -> Alphabet] : n \in 0..MaxLen}

\* pieces of words: open and closed syllables, a bare vowel, a bare consonant
Chunks ==
  { <<"s","a">>, <<"t","i">>, <<"r","à">>, <<"o">>, <<"n">>,
    <<"s","t","r","a">>, <<"m","o","r">>, <<"c","h","e">> }

\* every concatenation of at most MaxUnits chunks
ChunkWords == UNION {{Concat(f) : f \in [1..n -> Chunks]} : n \in 0..MaxUnits}

\* vocabulary entries, among them the scenarios of the specification
Lexicon ==
  { <<"c","a","s","a">>,
    <<"c","i","t","t","à">>,
    <<"g","l","i">>,
    <<"s","c","i","e","n","z","a">>,
    <<"a","m","o","r">>,
    <<"R","o","m","a">>,
    <<"p","e","r","c","h","é">>,
    <<"a","l","t","r","o">>,
    <<"m","o","s","t","r","o">>,
    <<"l","'","a","m","i","c","o">>,
    <<"t","a","x","i">>,
    <<"e","x","t","r","a">>,
    <<"a","s","t","a">>,
    <<"a","s","b","a">>,
    <<"a","s","m","a">>,
    <<"n","o","s","t","r","o">>,
    <<"c","r","e","d","o">>,
    <<"g","r","e","c","o">>,
    <<"c","h">>,
    <<"s","c","h","i">>,
    <<"s","c","h","a">>,
    <<"m","a","s","c","h","i","o">>,
    <<"q","u","a">>,
    <<"a","c","q","u","a">>,
    <<"z","i","o">>,
    <<"p","i","z","z","a">>,
    <<"g","u","e">>,
    <<"g","u","i">>,
    <<"g","u","a">>,
    <<"n","e","u","t","r","o">>,
    <<"f","i","g","l","i","a">>,
    <<"m","i","e","i">>,
    <<"c","a","u","s","a">> }

\* x is not one of the BoundedWords
Longer(x) == Len(x) > MaxLen \/ \E i \in 1..Len(x) : x[i] \notin Alphabet

Tokens == BoundedWords \cup {x \in ChunkWords \cup Lexicon : Longer(x)}

----------------------------------------------------------------------------
(* The pipeline of pronounce_word on one token, in either engine. *)

Init ==
  /\ engine \in {"verb", "noun"}
  /\ token \in Tokens
  /\ pc = "start"
  /\ word = <<>>
  /\ idx = 0
  /\ syllables = <<>>
  /\ stress = -1
  /\ pron_parts = <<>>
  /\ output = <<>>
  /\ phrase = <<>>
  /\ tokens = <<>>
  /\ cursor = 0
  /\ pieces = <<>>
  /\ result = <<>>
  /\ history = <<>>

\* a rendering with the two cases exchanged
render_verb_swapped(pron, i, stress_i) ==
  IF i = stress_i THEN lower(pron) ELSE upper(pron)

\* verb engine: the case of one rendered syllable
render_verb(pron, i, stress_i) == IF i = stress_i THEN upper(pron) ELSE lower(pron)

\* a rendering that puts the first syllable in upper case, whatever accent is
render_noun_first(pron, i, accent) == IF i = 0 THEN upper(pron) ELSE pron

\* noun engine: the case of one rendered syllable
render_noun(pron, i, accent) == IF i = accent THEN upper(pron) ELSE pron

\* verb engine: the apostrophes are removed; an empty result is skipped and
\* pronounce_word returns ''.join([]); otherwise the word is syllabified
Syllabify_verb ==
  /\ engine = "verb" /\ pc = "start"
  /\ LET cleaned == RemoveApostrophes(token)
     IN /\ word' = cleaned
        /\ IF cleaned = <<>>
           THEN syllables' = <<>> /\ pc' = "done"
           ELSE syllables' = syllabify_verb(cleaned) /\ pc' = "stress"
  /\ UNCHANGED <<engine, token, idx, stress, pron_parts, output, phraseVars>>

Stress_verb ==
  /\ engine = "verb" /\ pc = "stress"
  /\ stress' = stress_index_verb(word, syllables)
  /\ pc' = "convert"
  /\ UNCHANGED <<engine, token, word, idx, syllables, pron_parts, output, phraseVars>>

Convert_verb ==
  /\ engine = "verb" /\ pc = "convert"
  /\ pron_parts' = [i \in 1..Len(syllables) |->
                      render_verb(convert_syllable(syllables[i]), i - 1, stress)]
  /\ pc' = "join"
  /\ UNCHANGED <<engine, token, word, idx, syllables, stress, output, phraseVars>>

Join_verb ==
  /\ engine = "verb" /\ pc = "join"
  /\ output' = Join(<<"-">>, pron_parts)
  /\ pc' = "done"
  /\ UNCHANGED <<engine, token, word, idx, syllables, stress, pron_parts, phraseVars>>

\* noun engine: the word is NFC-normalised (it is already) and its
\* apostrophes removed, then syllabify starts with idx = 0
Start_noun ==
  /\ engine = "noun" /\ pc = "start"
  /\ word' = RemoveApostrophes(token)
  /\ idx' = 0
  /\ syllables' = <<>>
  /\ pc' = "syllabify"
  /\ UNCHANGED <<engine, token, stress, pron_parts, output, phraseVars>>

\* one iteration of the while loop of syllabify
SyllabifyStep_noun ==
  /\ engine = "noun" /\ pc = "syllabify"
  /\ idx < Len(word)
  /\ LET it == SyllabifyIteration(word, idx)
     IN /\ syllables' = Append(syllables, it[1])
        /\ idx' = it[2]
  /\ UNCHANGED <<engine, token, pc, word, stress, pron_parts, output, phraseVars>>

\* the loop has ended: the empty syllables are dropped; with no syllable
\* left pronounce_word returns the word itself
SyllabifyReturn_noun ==
  /\ engine = "noun" /\ pc = "syllabify"
  /\ ~(idx < Len(word))
  /\ LET kept == SelectSeq(syllables, LAMBDA s : s # <<>>)
     IN /\ syllables' = kept
        /\ IF kept = <<>>
           THEN output' = word /\ pc' = "done"
           ELSE output' = output /\ pc' = "stress"
  /\ UNCHANGED <<engine, token, word, idx, stress, pron_parts, phraseVars>>

Stress_noun ==
  /\ engine = "noun" /\ pc = "stress"
  /\ stress' = stress_index_noun(syllables)
  /\ pc' = "convert"
  /\ UNCHANGED <<engine, token, word, idx, syllables, pron_parts, output, phraseVars>>

Convert_noun ==
  /\ engine = "noun" /\ pc = "convert"
  /\ pron_parts' = [i \in 1..Len(syllables) |->
                      render_noun(syllable_to_pronunciation(syllables[i]), i - 1, stress)]
  /\ pc' = "join"
  /\ UNCHANGED <<engine, token, word, idx, syllables, stress, output, phraseVars>>

Join_noun ==
  /\ engine = "noun" /\ pc = "join"
  /\ output' = Join(<<"-">>, pron_parts)
  /\ pc' = "done"
  /\ UNCHANGED <<engine, token, word, idx, syllables, stress, pron_parts, phraseVars>>

Next ==
  \/ Syllabify_verb
  \/ Stress_verb
  \/ Convert_verb
  \/ Join_verb
  \/ Start_noun
  \/ SyllabifyStep_noun
  \/ SyllabifyReturn_noun
  \/ Stress_noun
  \/ Convert_noun
  \/ Join_noun

Spec == Init /\ [][Next]_vars

----------------------------------------------------------------------------
(* Tokenizers: the split of a phrase into words and separators. *)

\* str.isspace() for one character
IsSpaceCh(c) == c \in {" ", "\t", "\n"}

\* str.isspace(): not empty and whitespace only
isspace(s) == s # <<>> /\ \A k \in 1..Len(s) : IsSpaceCh(s[k])

\* a split that leaves the separators out, as a pattern without a group does
RECURSIVE re_split_noGroup(_, _, _)
re_split_noGroup(s, start, i) ==
  IF i >= Len(s) THEN << Slice(s, start, Len(s)) >>
  ELSE IF s[i + 1] \in {" ", "\t"}
    THEN LET stops == {j \in i..(Len(s) - 1) : s[j + 1] \notin {" ", "\t"}}
             end == IF stops = {} THEN Len(s) ELSE Min(stops)
         IN << Slice(s, start, i) >> \o re_split_noGroup(s, end, end)
  ELSE IF s[i + 1] = "-"
    THEN << Slice(s, start, i) >> \o re_split_noGroup(s, i + 1, i + 1)
  ELSE re_split_noGroup(s, start, i + 1)

\* re.split(r'([ \t]+|-)', s) from position i on, the text since start not
\* yet emitted: the texts between the matches, empty ones included, and,
\* the pattern being a group, each match itself
RECURSIVE re_split(_, _, _)
re_split(s, start, i) ==
  IF i >= Len(s) THEN << Slice(s, start, Len(s)) >>
  ELSE IF s[i + 1] \in {" ", "\t"}
    THEN LET stops == {j \in i..(Len(s) - 1) : s[j + 1] \notin {" ", "\t"}}
             end == IF stops = {} THEN Len(s) ELSE Min(stops)
         IN << Slice(s, start, i), Slice(s, i, end) >> \o re_split(s, end, end)
  ELSE IF s[i + 1] = "-"
    THEN << Slice(s, start, i), <<"-">> >> \o re_split(s, i + 1, i + 1)
  ELSE re_split(s, start, i + 1)

\* a list that is the caller's old one, as a shared default would be
new_list_shared(old) == old

\* pieces = [] and parts = []: a new empty list at every call
new_list(old) == <<>>

\* a join that answers a blank for no piece at all
join_pieces_blank(ps) == IF ps = <<>> THEN <<" ">> ELSE Concat(ps)

\* ''.join(pieces)
join_pieces(ps) == Concat(ps)

AccentedLetters ==
  {"à", "è", "é", "ì", "ò", "ó", "ù", "À", "È", "É", "Ì", "Ò", "Ó", "Ù"}

\* str.isalpha() for one character
isalpha(c) ==
  \/ \E k \in 1..Len(LowerLetters) : LowerLetters[k] = c
  \/ \E k \in 1..Len(UpperLetters) : UpperLetters[k] = c
  \/ c \in AccentedLetters

\* the typographic apostrophe, the character U+2019, by its name
RightQuote == "U+2019"

\* noun engine: the characters that extend the current word
IsWordCh(c) ==
  isalpha(c) \/ c \in {"à", "è", "é", "ì", "ò", "ó", "ù", "'", RightQuote}

\* ch.replace(U+2019, "'")
ReplaceQuote(c) == IF c = RightQuote THEN "'" ELSE c

\* str.rstrip()
RECURSIVE rstrip(_)
rstrip(s) ==
  IF s # <<>> /\ IsSpaceCh(s[Len(s)]) THEN rstrip(SubSeq(s, 1, Len(s) - 1)) ELSE s

\* the pieces that join what stands before them without a space
ATTACHED == {",", ".", ";", ":", "!", "?", "%"}

\* an assembly that puts no space before any piece
RECURSIVE AssembleFrom_tight(_, _, _)
AssembleFrom_tight(parts, k, out) ==
  IF k > Len(parts) THEN out ELSE AssembleFrom_tight(parts, k + 1, out \o parts[k])

\* noun engine: the loop that assembles the output from parts[k], ... on
RECURSIVE AssembleFrom(_, _, _)
AssembleFrom(parts, k, out) ==
  IF k > Len(parts) THEN out
  ELSE LET piece == parts[k]
       IN IF out = <<>> THEN AssembleFrom(parts, k + 1, piece)
          ELSE IF Len(piece) = 1 /\ piece[1] \in ATTACHED
            THEN AssembleFrom(parts, k + 1, rstrip(out) \o piece)
          ELSE AssembleFrom(parts, k + 1, out \o <<" ">> \o piece)

----------------------------------------------------------------------------
(* The engines on a phrase: pronounce_word of the verb engine and
   pronounce_term of the noun engine. *)

PhraseAlphabet == {"a", "n", "'", " ", "-", ","}

BoundedPhrases == UNION {[1..n -> PhraseAlphabet] : n \in 0..MaxPhraseLen}

\* terms of the vocabulary files and of the scenarios
PhraseLexicon ==
  { <<"l","'","a","m","i","c","o">>,
    <<"l",RightQuote,"a","m","i","c","o">>,
    <<"a","n","d","a","r","e"," ","v","i","a">>,
    <<"t","u"," ","(","i","n","f","o","r","m","a","l","e",")">>,
    <<"a","\t","b","\n","c">>,
    <<"a","/","b">>,
    <<"c","h"," ","s","t","r">>,
    <<"g","u","e">>,
    <<"g","u","i">>,
    <<"g","u","a">> }

Phrases == BoundedPhrases \cup PhraseLexicon

InitPhrase ==
  /\ engine \in {"verb", "noun"}
  /\ phrase \in Phrases
  /\ pc = "call"
  /\ token = <<>>
  /\ word = <<>>
  /\ idx = 0
  /\ syllables = <<>>
  /\ stress = -1
  /\ pron_parts = <<>>
  /\ output = <<>>
  /\ tokens = <<>>
  /\ cursor = 0
  /\ pieces = <<>>
  /\ result = <<>>
  /\ history = <<>>

\* what one call leaves behind for its caller
Returned(r) == [engine |-> engine, phrase |-> phrase, result |-> r]

\* verb engine: tokens = re.split(...); pieces = []
Split_verb ==
  /\ engine = "verb" /\ pc = "call"
  /\ tokens' = re_split(phrase, 0, 0)
  /\ pieces' = new_list(pieces)
  /\ cursor' = 0
  /\ pc' = "loop"
  /\ UNCHANGED <<engine, token, word, idx, syllables, stress, pron_parts, output,
                 phrase, result, history>>

\* the empty token, and the token of apostrophes only, add no piece
SkipToken_verb ==
  /\ engine = "verb" /\ pc = "loop" /\ cursor < Len(tokens)
  /\ LET t == tokens[cursor + 1]
     IN /\ \/ t = <<>>
           \/ /\ t # <<>>
              /\ ~(isspace(t) \/ t = <<"-">>)
              /\ RemoveApostrophes(t) = <<>>
        /\ token' = t
  /\ cursor' = cursor + 1
  /\ UNCHANGED <<engine, pc, word, idx, syllables, stress, pron_parts, output,
                 phrase, tokens, pieces, result, history>>

\* a whitespace token or a hyphen is a piece as it is
Separator_verb ==
  /\ engine = "verb" /\ pc = "loop" /\ cursor < Len(tokens)
  /\ LET t == tokens[cursor + 1]
     IN /\ t # <<>>
        /\ isspace(t) \/ t = <<"-">>
        /\ token' = t
        /\ pieces' = Append(pieces, t)
  /\ cursor' = cursor + 1
  /\ UNCHANGED <<engine, pc, word, idx, syllables, stress, pron_parts, output,
                 phrase, tokens, result, history>>

\* any other token is transcribed as a word
Word_verb ==
  /\ engine = "verb" /\ pc = "loop" /\ cursor < Len(tokens)
  /\ LET t == tokens[cursor + 1]
     IN /\ t # <<>>
        /\ ~(isspace(t) \/ t = <<"-">>)
        /\ RemoveApostrophes(t) # <<>>
        /\ token' = t
  /\ pc' = "start"
  /\ UNCHANGED <<engine, word, idx, syllables, stress, pron_parts, output,
                 phraseVars>>

\* pieces.append('-'.join(pron_parts)), and on to the next token
EndToken_verb ==
  /\ engine = "verb" /\ pc = "done"
  /\ pieces' = Append(pieces, output)
  /\ cursor' = cursor + 1
  /\ pc' = "loop"
  /\ UNCHANGED <<engine, token, word, idx, syllables, stress, pron_parts, output,
                 phrase, tokens, result, history>>

\* return ''.join(pieces)
Return_verb ==
  /\ engine = "verb" /\ pc = "loop" /\ cursor = Len(tokens)
  /\ result' = join_pieces(pieces)
  /\ history' = Append(history, Returned(result'))
  /\ pc' = "returned"
  /\ UNCHANGED <<engine, token, word, idx, syllables, stress, pron_parts, output,
                 phrase, tokens, cursor, pieces>>

\* noun engine: parts = []; token = ""
Begin_noun ==
  /\ engine = "noun" /\ pc = "call"
  /\ pieces' = new_list(pieces)
  /\ token' = <<>>
  /\ cursor' = 0
  /\ pc' = "scan"
  /\ UNCHANGED <<engine, word, idx, syllables, stress, pron_parts, output,
                 phrase, tokens, result, history>>

\* a letter or an apostrophe extends the current word
Accumulate_noun ==
  /\ engine = "noun" /\ pc = "scan" /\ cursor < Len(phrase)
  /\ IsWordCh(phrase[cursor + 1])
  /\ token' = Append(token, ReplaceQuote(phrase[cursor + 1]))
  /\ cursor' = cursor + 1
  /\ UNCHANGED <<engine, pc, word, idx, syllables, stress, pron_parts, output,
                 phrase, tokens, pieces, result, history>>

\* any other character, or the end of the term, ends the current word:
\* pronounce_word(token) is called
Flush_noun ==
  /\ engine = "noun" /\ pc = "scan"
  /\ token # <<>>
  /\ cursor < Len(phrase) => ~IsWordCh(phrase[cursor + 1])
  /\ pc' = "start"
  /\ UNCHANGED <<engine, token, word, idx, syllables, stress, pron_parts, output,
                 phraseVars>>

\* parts.append(pronounce_word(token)); token = ""
EndToken_noun ==
  /\ engine = "noun" /\ pc = "done"
  /\ pieces' = Append(pieces, output)
  /\ token' = <<>>
  /\ pc' = "scan"
  /\ UNCHANGED <<engine, word, idx, syllables, stress, pron_parts, output,
                 phrase, tokens, cursor, result, history>>

\* the character that ended the word is a part of its own unless it is
\* whitespace
Separator_noun ==
  /\ engine = "noun" /\ pc = "scan" /\ cursor < Len(phrase)
  /\ token = <<>>
  /\ ~IsWordCh(phrase[cursor + 1])
  /\ pieces' = IF IsSpaceCh(phrase[cursor + 1]) THEN pieces
               ELSE Append(pieces, <<phrase[cursor + 1]>>)
  /\ cursor' = cursor + 1
  /\ UNCHANGED <<engine, token, pc, word, idx, syllables, stress, pron_parts,
                 output, phrase, tokens, result, history>>

\* the parts are assembled and the output returned
Assemble_noun ==
  /\ engine = "noun" /\ pc = "scan" /\ cursor = Len(phrase)
  /\ token = <<>>
  /\ result' = AssembleFrom(pieces, 1, <<>>)
  /\ history' = Append(history, Returned(result'))
  /\ pc' = "returned"
  /\ UNCHANGED <<engine, token, word, idx, syllables, stress, pron_parts, output,
                 phrase, tokens, cursor, pieces>>

NextPhrase ==
  \/ Split_verb
  \/ SkipToken_verb
  \/ Separator_verb
  \/ Word_verb
  \/ EndToken_verb
  \/ Return_verb
  \/ Begin_noun
  \/ Accumulate_noun
  \/ Flush_noun
  \/ EndToken_noun
  \/ Separator_noun
  \/ Assemble_noun
  \/ Next

SpecPhrase == InitPhrase /\ [][NextPhrase]_vars

----------------------------------------------------------------------------
(* Call after call: the loop over the rows of a vocabulary file hands one
   term after another to the same function. *)

CallPhrases ==
  { <<"a">>, <<" ","n","'","a">>, <<"a","-","n">> }

InitCalls == InitPhrase /\ phrase \in CallPhrases

\* the next row: the function is called again, all that the previous call
\* left in place
CallAgain ==
  /\ pc = "returned"
  /\ Len(history) < MaxCalls
  /\ engine' \in {"verb", "noun"}
  /\ phrase' \in CallPhrases
  /\ pc' = "call"
  /\ UNCHANGED <<token, word, idx, syllables, stress, pron_parts, output,
                 tokens, cursor, pieces, result, history>>

NextCalls ==
  \/ CallAgain
  \/ NextPhrase

SpecCalls == InitCalls /\ [][NextCalls]_vars

----------------------------------------------------------------------------
(* Vocabulary of the properties. *)

\* syllabify has returned
AfterSyllabify == {"stress", "convert", "join", "done"}

\* stress_index has returned
AfterStress == {"convert", "join", "done"}

\* the accented vowels the stress rules name
WrittenAccents == {"à", "è", "é", "ì", "ò", "ù"}

\* every accented vowel of Italian orthography
AnyAccent == WrittenAccents \cup {"ó", "À", "È", "É", "Ì", "Ò", "Ó", "Ù"}

ItalianVowels ==
  {"a", "e", "i", "o", "u", "A", "E", "I", "O", "U"} \cup AnyAccent

HasVowel(s) == \E k \in 1..Len(s) : s[k] \in ItalianVowels

Unaccented(s) == \A k \in 1..Len(s) : s[k] \notin AnyAccent

EndsInVowel(s) == s # <<>> /\ s[Len(s)] \in ItalianVowels

EndsInConsonant(s) == s # <<>> /\ s[Len(s)] \notin ItalianVowels

\* the 0-based indices of the syllables that hold a written accent
AccentedSyllables ==
  {n \in 0..(Len(syllables) - 1) :
     \E k \in 1..Len(syllables[n + 1]) : syllables[n + 1][k] \in WrittenAccents}

LowerCaseLetters == {LowerLetters[k] : k \in 1..Len(LowerLetters)}

UpperCaseLetters == {UpperLetters[k] : k \in 1..Len(UpperLetters)}

\* no lower-case letter and at least one upper-case letter
InUpperCase(s) ==
  /\ \A k \in 1..Len(s) : s[k] \notin LowerCaseLetters
  /\ \E k \in 1..Len(s) : s[k] \in UpperCaseLetters

\* no upper-case letter
InLowerCase(s) == \A k \in 1..Len(s) : s[k] \notin UpperCaseLetters

\* the sound mapper of the engine at work
Rendering(syllable) ==
  IF engine = "verb" THEN convert_syllable(syllable)
  ELSE syllable_to_pronunciation(syllable)

----------------------------------------------------------------------------
(* Syllabifier and stress locator. *)

\* C1: in both engines the syllables syllabify returns, concatenated in
\* order, are the word: no character is dropped, duplicated or reordered.
C1_Coverage ==
  pc \in AfterSyllabify => Concat(syllables) = word

\* C1 happens: a word of three syllables or more whose inner cluster was
\* split, a coda left behind, has been syllabified.
C1_Witness ==
  /\ pc = "stress"
  /\ Len(syllables) >= 3
  /\ \E n \in 1..(Len(syllables) - 1) : EndsInConsonant(syllables[n])
  /\ Concat(syllables) = word

\* C2: in both engines stress_index returns one integer i with
\* 0 <= i < len(syllables), for every non-empty list syllabify produced.
C2_SingleStress ==
  (pc \in AfterStress /\ syllables # <<>>) =>
     /\ stress \in Int
     /\ 0 <= stress
     /\ stress < Len(syllables)

\* C2 happens: the stress index of a one-syllable word was computed.
C2_Witness ==
  /\ pc = "convert"
  /\ Len(syllables) = 1
  /\ stress = 0

\* C3: in both engines a word of two or more syllables, with no accented
\* vowel, whose last character is a consonant is stressed on its final
\* syllable.
C3_FinalStress ==
  (/\ pc \in AfterStress
   /\ Len(syllables) >= 2
   /\ Unaccented(word)
   /\ EndsInConsonant(word))
  => stress = Len(syllables) - 1

\* C4: in both engines a word with no accented vowel is stressed on index 0
\* when it has one syllable and on the penultimate syllable when it has two
\* or more and ends in a vowel.
C4_DefaultStress ==
  (pc \in AfterStress /\ Unaccented(word)) =>
     /\ Len(syllables) = 1 => stress = 0
     /\ (Len(syllables) >= 2 /\ EndsInVowel(word)) => stress = Len(syllables) - 2

\* C4 happens: an unaccented word of three syllables or more ending in a
\* vowel got the penultimate stress.
C4_Witness ==
  /\ pc = "convert"
  /\ Unaccented(word)
  /\ Len(syllables) >= 3
  /\ EndsInVowel(word)
  /\ stress = Len(syllables) - 2

\* C5: in both engines, when some syllable holds one of à è é ì ò ù, the
\* stress is on the first such syllable, whatever the number of syllables
\* and the last character of the word.
C5_AccentFirst ==
  (pc \in AfterStress /\ AccentedSyllables # {}) =>
     stress = Min(AccentedSyllables)

\* C5 happens: the accent is on the first of three syllables or more, where
\* neither positional rule would put the stress.
C5_Witness ==
  /\ pc = "convert"
  /\ Len(syllables) >= 3
  /\ AccentedSyllables # {}
  /\ Min(AccentedSyllables) = 0
  /\ stress = 0

----------------------------------------------------------------------------
(* Composer. *)

\* C6: in both engines, for a word whose every syllable holds a vowel, the
\* output is the renderings of the syllables, in order, joined by "-"; the
\* one at the stress index is in upper case and every other one is in lower
\* case, so exactly one is distinguished.
C6_Composer ==
  (/\ pc = "done"
   /\ word # <<>>
   /\ \A n \in 1..Len(syllables) : HasVowel(syllables[n]))
  => /\ Len(pron_parts) = Len(syllables)
     /\ output = Join(<<"-">>, pron_parts)
     /\ \A n \in 1..Len(syllables) :
          /\ lower(pron_parts[n]) = lower(Rendering(syllables[n]))
          /\ IF n - 1 = stress THEN InUpperCase(pron_parts[n])
                               ELSE InLowerCase(pron_parts[n])
     /\ Cardinality({n \in 1..Len(pron_parts) : InUpperCase(pron_parts[n])}) = 1

\* C6 happens: a word of three syllables or more, each with a vowel, was
\* rendered with the stress on a syllable that is not the first.
C6_Witness ==
  /\ pc = "done"
  /\ Len(syllables) >= 3
  /\ \A n \in 1..Len(syllables) : HasVowel(syllables[n])
  /\ stress >= 1
  /\ InUpperCase(pron_parts[stress + 1])

----------------------------------------------------------------------------
(* Scenarios. *)

casa == <<"c","a","s","a">>

citta == <<"c","i","t","t","à">>

gli == <<"g","l","i">>

scienza == <<"s","c","i","e","n","z","a">>

\* C7 as the scenario states it: "casa" gives the syllables ca, sa, the
\* stress index 1 and the output "kah-SAH".
C7_CasaFinalStress ==
  (token = casa /\ pc = "done") =>
     /\ syllables = << <<"c","a">>, <<"s","a">> >>
     /\ stress = 1
     /\ output = <<"k","a","h","-","S","A","H">>

\* C7, amended: in both engines "casa" gives the syllables ca, sa, the
\* stress index 0 (the penultimate syllable) and the output "KAH-sah".
C7_CasaPenultimateStress ==
  (token = casa /\ pc = "done") =>
     /\ syllables = << <<"c","a">>, <<"s","a">> >>
     /\ stress = 0
     /\ output = <<"K","A","H","-","s","a","h">>

\* C7 happens: "casa" went through the whole pipeline.
C7_Witness ==
  /\ token = casa
  /\ pc = "done"
  /\ Len(syllables) = 2
  /\ output # <<>>

\* C8: in both engines "città" is stressed on its final syllable, the one
\* that holds à, and the output is "chee-TAH".
C8_Citta ==
  (token = citta /\ pc = "done") =>
     /\ stress = Len(syllables) - 1
     /\ \E k \in 1..Len(syllables[stress + 1]) : syllables[stress + 1][k] = "à"
     /\ output = <<"c","h","e","e","-","T","A","H">>

\* C9: each engine makes the single syllable "gli" of "gli" and returns
\* exactly "LY".
C9_Gli ==
  (token = gli /\ pc = "done") =>
     /\ syllables = << gli >>
     /\ output = <<"L","Y">>

\* C10 as the scenario states it: syllabify("scienza") returns sci, en, za.
C10_ScienzaThreeSyllables ==
  (token = scienza /\ pc \in AfterSyllabify) =>
     syllables = << <<"s","c","i">>, <<"e","n">>, <<"z","a">> >>

\* C10, amended: in both engines syllabify("scienza") returns the two
\* syllables scien, za; the vowel run ie stays whole, as one nucleus.
C10_ScienzaTwoSyllables ==
  (token = scienza /\ pc \in AfterSyllabify) =>
     syllables = << <<"s","c","i","e","n">>, <<"z","a">> >>

\* C10 happens: "scienza" has been syllabified.
C10_Witness ==
  /\ token = scienza
  /\ pc = "stress"
  /\ Len(syllables) = 2

----------------------------------------------------------------------------
(* Degenerate words and consonant clusters. *)

\* the consonants a syllable starts with
LeadingConsonants(s) ==
  Slice(s, 0, Max({k \in 0..Len(s) : \A j \in 1..k : s[j] \notin ItalianVowels}))

\* the consonants a syllable ends with
TrailingConsonants(s) ==
  SliceFrom(s, Len(s) - Max({k \in 0..Len(s) :
                               \A j \in (Len(s) - k + 1)..Len(s) : s[j] \notin ItalianVowels}))

\* the consonants between the nucleus of syllable n and that of syllable n + 1
ClusterAfter(n) == TrailingConsonants(syllables[n]) \o LeadingConsonants(syllables[n + 1])

\* C17: in both engines, for a non-empty word without any vowel, syllabify
\* returns the word as its one syllable and the pipeline returns the word
\* itself, same characters and same case.
C17_VowellessUnmodified ==
  (pc = "done" /\ word # <<>> /\ ~HasVowel(word)) =>
     /\ syllables = <<word>>
     /\ output = word

\* the suffixes of the cluster that are entries of the verb engine's table,
\* by their lengths; the comparison ignores case
AllowedSuffixLengths(cluster) ==
  {k \in 1..Len(cluster) :
     SliceFrom(lower(cluster), Len(cluster) - k) \in ALLOWED_ONSETS_verb}

\* C18 as stated: in the verb engine the onset of every syllable after the
\* first is the longest suffix of the cluster before its nucleus that is an
\* entry of ALLOWED_ONSETS; the rest of the cluster is the coda before it.
C18_LongestAllowedSuffix ==
  (engine = "verb" /\ pc \in AfterSyllabify) =>
     \A n \in 1..(Len(syllables) - 1) :
        LET cluster == ClusterAfter(n)
            onset == LeadingConsonants(syllables[n + 1])
        IN /\ AllowedSuffixLengths(cluster) # {}
           /\ Len(onset) = Max(AllowedSuffixLengths(cluster))

\* C18, amended: the onset is the longest suffix of the cluster that is an
\* entry of ALLOWED_ONSETS when the cluster has such a suffix, and the last
\* consonant of the cluster alone when it has none; the rest of the cluster
\* is the coda of the syllable before.
C18_LongestAllowedSuffixOrLast ==
  (engine = "verb" /\ pc \in AfterSyllabify) =>
     \A n \in 1..(Len(syllables) - 1) :
        LET cluster == ClusterAfter(n)
            onset == LeadingConsonants(syllables[n + 1])
            coda == TrailingConsonants(syllables[n])
        IN /\ cluster # <<>>
           /\ Len(onset) = IF AllowedSuffixLengths(cluster) # {}
                           THEN Max(AllowedSuffixLengths(cluster))
                           ELSE 1
           /\ coda = Slice(cluster, 0, Len(cluster) - Len(onset))

\* C18 happens: a cluster of three consonants was split, its longest suffix
\* in the table being shorter than the cluster.
C18_Witness ==
  /\ engine = "verb"
  /\ pc = "stress"
  /\ \E n \in 1..(Len(syllables) - 1) :
        /\ Len(ClusterAfter(n)) >= 3
        /\ Len(LeadingConsonants(syllables[n + 1])) = 2
        /\ TrailingConsonants(syllables[n]) # <<>>

\* the s-initial clusters the onset table is said to hold
SOnsets ==
  { <<"s","c">>, <<"s","p">>, <<"s","t">>, <<"s","b">>, <<"s","d","r">>,
    <<"s","t","r">>, <<"s","c","r">>, <<"s","p","l">>, <<"s","p","r">> }

\* C19: in both engines a cluster of s and one consonant or more, between two
\* nuclei, is split right after the s, which is the whole coda of the
\* syllable before, unless the cluster is one of sc, sp, st, sb, sdr, str,
\* scr, spl, spr: then the whole cluster is the onset of the next syllable.
C19_SClusters ==
  pc \in AfterSyllabify =>
     \A n \in 1..(Len(syllables) - 1) :
        LET cluster == lower(ClusterAfter(n))
            coda == lower(TrailingConsonants(syllables[n]))
        IN (Len(cluster) >= 2 /\ cluster[1] = "s") =>
              IF cluster \in SOnsets THEN coda = <<>> ELSE coda = <<"s">>

----------------------------------------------------------------------------
(* Sound mapper. *)

\* C20: in the verb engine a syllable's leading c (not the c of ch) is
\* rendered "ch" when the character right after it is e or i and "k" when it
\* is anything else, another onset consonant included; likewise a leading g
\* (not the g of gh, gn, gl) is rendered "j" or "g".
C20_SoftHard ==
  (engine = "verb" /\ pc \in {"join", "done"}) =>
     \A n \in 1..Len(syllables) :
        LET s == strip_accents(lower(syllables[n]))
            p == lower(pron_parts[n])
        IN /\ (Len(s) >= 2 /\ s[1] = "c" /\ s[2] # "h") =>
                IF s[2] \in {"e", "i"} THEN Slice(p, 0, 2) = <<"c","h">>
                                       ELSE Slice(p, 0, 1) = <<"k">>
           /\ (Len(s) >= 2 /\ s[1] = "g" /\ s[2] \notin {"h", "n", "l"}) =>
                IF s[2] \in {"e", "i"} THEN Slice(p, 0, 1) = <<"j">>
                                       ELSE Slice(p, 0, 1) = <<"g">>

----------------------------------------------------------------------------
(* Tokenizer and whole phrases. *)

lamico == <<"l","'","a","m","i","c","o">>

\* C11: in both engines the apostrophe of "l'amico" does not end the word,
\* which is syllabified as "lamico", and the apostrophe itself is in the
\* string returned.
C11_ApostropheKept ==
  (phrase = lamico /\ pc = "returned") =>
     /\ word = <<"l","a","m","i","c","o">>
     /\ Concat(syllables) = word
     /\ \E k \in 1..Len(result) : result[k] = "'"

\* a token the verb engine appends to its pieces as it is
IsSeparator(t) == isspace(t) \/ t = <<"-">>

\* the tokens that give a piece: the separators and the words
PieceTokens ==
  SelectSeq(tokens, LAMBDA t : IsSeparator(t) \/ RemoveApostrophes(t) # <<>>)

\* C12: in the verb engine the tokens of the phrase, concatenated, are the
\* phrase; every whitespace run and every hyphen is a token of its own and
\* is in the returned string as it stands, at its place among the pieces.
C12_LosslessTokens ==
  (engine = "verb" /\ pc # "call") =>
     /\ Concat(tokens) = phrase
     /\ \A k \in 1..Len(tokens) :
           \A j \in 1..Len(tokens[k]) :
              tokens[k][j] \in {" ", "\t", "-"} => IsSeparator(tokens[k])
     /\ pc = "returned" =>
           /\ Len(pieces) = Len(PieceTokens)
           /\ \A k \in 1..Len(pieces) :
                 IsSeparator(PieceTokens[k]) => pieces[k] = PieceTokens[k]
           /\ result = Concat(pieces)

\* C12 happens: a phrase with a whitespace run of two characters and a
\* hyphen, each next to a word, has been returned.
C12_Witness ==
  /\ engine = "verb"
  /\ pc = "returned"
  /\ \E k \in 1..Len(tokens) : Len(tokens[k]) = 2 /\ isspace(tokens[k])
  /\ \E k \in 1..Len(tokens) : tokens[k] = <<"-">>
  /\ \E k \in 1..Len(pieces) : InUpperCase(pieces[k])
  /\ Len(pieces) = 3

\* whitespace and the punctuation that no rendering of a word holds
IsSeparatorCh(c) == c \in {" ", "\t", "\n", ",", "(", ")", "/"}

\* C13: the noun engine puts no space between the rendering of a word and a
\* punctuation character touching it and returns the separator text of the
\* term as it found it: the whitespace and punctuation of the returned
\* string are those of the term, in order.
C13_SeparatorsKept ==
  (engine = "noun" /\ pc = "returned") =>
     SelectSeq(result, IsSeparatorCh) = SelectSeq(phrase, IsSeparatorCh)

\* C14: in both engines two calls on the same input return the same string,
\* whatever was transcribed before or between them.
C14_Deterministic ==
  \A i \in 1..Len(history) : \A j \in 1..Len(history) :
     (history[i].engine = history[j].engine /\ history[i].phrase = history[j].phrase)
        => history[i].result = history[j].result

\* C14 happens: an input was transcribed a second time after another one,
\* and gave a string that is not empty.
C14_Witness ==
  /\ Len(history) = 3
  /\ history[1].engine = history[3].engine
  /\ history[1].phrase = history[3].phrase
  /\ history[2].phrase # history[1].phrase
  /\ history[3].result = history[1].result
  /\ history[3].result # <<>>

\* the positions of each engine, and at each of them a state in which one
\* branch of the code applies: an index within its string or list, a list
\* of syllables with an entry to take; at the return, a string
NoStepFails ==
  /\ engine = "verb" =>
        pc \in {"call", "loop", "start", "stress", "convert", "join", "done", "returned"}
  /\ engine = "noun" =>
        pc \in {"call", "scan", "start", "syllabify", "stress", "convert", "join",
                "done", "returned"}
  /\ pc = "loop" => cursor \in 0..Len(tokens)
  /\ pc = "scan" => cursor \in 0..Len(phrase)
  /\ pc = "syllabify" => idx \in 0..Len(word)
  /\ pc \in {"stress", "convert", "join"} => syllables # <<>>
  /\ pc \in {"convert", "join"} => stress \in 0..(Len(syllables) - 1)
  /\ pc = "returned" => result \in Seq(STRING)

\* more than the steps one token or one character of the phrase can take
StepsPerUnit == 2 * Len(phrase) + 13

\* a bound on the steps left before the return
StepsLeft ==
  IF pc = "call" THEN (2 * Len(phrase) + 3) * StepsPerUnit
  ELSE IF pc = "returned" THEN 0
  ELSE IF engine = "verb"
    THEN (Len(tokens) - cursor) * StepsPerUnit
         + CASE pc = "loop" -> 6 [] pc = "start" -> 5 [] pc = "stress" -> 4
             [] pc = "convert" -> 3 [] pc = "join" -> 2 [] pc = "done" -> 1
  ELSE (Len(phrase) - cursor) * StepsPerUnit
       + CASE pc = "scan" -> IF token = <<>> THEN 1 ELSE 2 * Len(phrase) + 12
           [] pc = "start" -> 2 * Len(phrase) + 11
           [] pc = "syllabify" -> Len(phrase) + 9 + (Len(word) - idx)
           [] pc = "stress" -> 5 [] pc = "convert" -> 4 [] pc = "join" -> 3
           [] pc = "done" -> 2

\* C15: both engines are total: from every phrase, the empty one, one
\* without a letter, one of apostrophes only and one without a vowel among
\* them, no step fails, every step brings the return nearer, and what is
\* returned is a string.
C15_Total == []NoStepFails /\ [][StepsLeft' < StepsLeft]_vars

\* C15 happens: a phrase made of apostrophes only has been answered.
C15_Witness ==
  /\ pc = "returned"
  /\ phrase # <<>>
  /\ \A k \in 1..Len(phrase) : phrase[k] = "'"
  /\ result \in Seq(STRING)

\* C16: both engines return the empty string for the empty string.
C16_EmptyToEmpty ==
  (phrase = <<>> /\ pc = "returned") => result = <<>>

\* C16 happens: the empty string went through the tokenizer, which found no
\* word and no separator in it, and the call has returned.
C16_Witness ==
  /\ phrase = <<>>
  /\ pc = "returned"
  /\ pieces = <<>>
  /\ Len(history) = 1

----------------------------------------------------------------------------
(* Sound mapper: digraphs, z and the nucleus. *)

\* s starts with the characters of p
StartsWith(s, p) == Len(s) >= Len(p) /\ SubSeq(s, 1, Len(p)) = p

\* the number of places of s where the characters of p stand
Occurrences(s, p) ==
  Cardinality({k \in 1..(Len(s) - Len(p) + 1) : SubSeq(s, k, k + Len(p) - 1) = p})

\* C21: in the verb engine the rendering of every syllable whose onset is
\* sch starts with "sk", whatever vowel the nucleus starts with.
C21_SchIsSk ==
  (engine = "verb" /\ pc \in {"join", "done"}) =>
     \A n \in 1..Len(syllables) :
        lower(LeadingConsonants(syllables[n])) = <<"s","c","h">>
           => StartsWith(lower(pron_parts[n]), <<"s","k">>)

\* C22: in the verb engine the rendering of every syllable that starts with
\* qu and a vowel starts with "kw".
C22_QuIsKw ==
  (engine = "verb" /\ pc \in {"join", "done"}) =>
     \A n \in 1..Len(syllables) :
        (/\ Len(syllables[n]) >= 3
         /\ StartsWith(lower(syllables[n]), <<"q","u">>)
         /\ syllables[n][3] \in ItalianVowels)
           => StartsWith(lower(pron_parts[n]), <<"k","w">>)

\* C23: in both engines a syllable that holds a z, in its onset or its coda,
\* single or doubled, is rendered with "dz" for it: its rendering holds a z,
\* no more of them than the syllable, and each stands in a "dz".
C23_ZIsDz ==
  pc \in {"join", "done"} =>
     \A n \in 1..Len(syllables) :
        LET zs == Occurrences(lower(syllables[n]), <<"z">>)
            p == lower(pron_parts[n])
        IN zs >= 1 =>
              /\ Occurrences(p, <<"z">>) \in 1..zs
              /\ Occurrences(p, <<"d","z">>) = Occurrences(p, <<"z">>)

\* the base sounds of the vowels of a nucleus, in order
BaseSounds(nucleus) ==
  Concat([k \in 1..Len(nucleus) |->
            CASE nucleus[k] = "a" -> <<"a","h">>
              [] nucleus[k] = "e" -> <<"e","h">>
              [] nucleus[k] = "i" -> <<"e","e">>
              [] nucleus[k] = "o" -> <<"o","h">>
              [] nucleus[k] = "u" -> <<"o","o">>
              [] OTHER -> <<nucleus[k]>>])

\* the idiom of a nucleus that is a listed diphthong, the base sounds of any
\* other; the nucleus in lower case and without accents
WholeNucleusSound(nucleus) ==
  IF nucleus \in DOMAIN NUCLEUS_MAP THEN NUCLEUS_MAP[nucleus] ELSE BaseSounds(nucleus)

\* the idiom of the first two vowels when they are a listed diphthong, then
\* the sound of the rest found the same way; the base sounds of the whole
\* nucleus when they are not
RECURSIVE LeadingPairSound(_)
LeadingPairSound(nucleus) ==
  IF Len(nucleus) >= 2 /\ SubSeq(nucleus, 1, 2) \in DOMAIN NUCLEUS_MAP
  THEN NUCLEUS_MAP[SubSeq(nucleus, 1, 2)] \o LeadingPairSound(SliceFrom(nucleus, 2))
  ELSE BaseSounds(nucleus)

\* the vowel run of a syllable, in lower case and without accents
NucleusOf(syllable) == strip_accents(lower(split_syllable_components(syllable)[2]))

\* the renderings of the onset and of the coda of a syllable
OnsetSoundOf(syllable) ==
  LET parts == split_syllable_components(syllable) IN map_onset(parts[1], parts[2])

CodaSoundOf(syllable) == map_coda(split_syllable_components(syllable)[3])

\* C24 as stated: in the verb engine the nucleus of a syllable is rendered
\* by its idiom when it is one of the 13 diphthongs and, whatever its
\* length, by the base sounds of its vowels when it is not.
C24_IdiomOrBaseSounds ==
  (engine = "verb" /\ pc \in {"join", "done"}) =>
     \A n \in 1..Len(syllables) :
        HasVowel(syllables[n]) =>
           lower(pron_parts[n]) =
              OnsetSoundOf(syllables[n])
              \o WholeNucleusSound(NucleusOf(syllables[n]))
              \o CodaSoundOf(syllables[n])

\* C24, amended: a nucleus that is one of the 13 diphthongs is rendered by
\* its idiom; a longer nucleus whose first two vowels are one of them by
\* that idiom followed by the rendering of the rest; any other nucleus by
\* the base sounds of its vowels, in order.
C24_IdiomOfLeadingPair ==
  (engine = "verb" /\ pc \in {"join", "done"}) =>
     \A n \in 1..Len(syllables) :
        HasVowel(syllables[n]) =>
           lower(pron_parts[n]) =
              OnsetSoundOf(syllables[n])
              \o LeadingPairSound(NucleusOf(syllables[n]))
              \o CodaSoundOf(syllables[n])

\* C24 happens: a syllable with a nucleus of three vowels, the first two of
\* them a diphthong, has been rendered.
C24_Witness ==
  /\ engine = "verb"
  /\ pc = "done"
  /\ \E n \in 1..Len(syllables) :
        /\ Len(NucleusOf(syllables[n])) >= 3
        /\ SubSeq(NucleusOf(syllables[n]), 1, 2) \in DOMAIN NUCLEUS_MAP
        /\ LeadingConsonants(syllables[n]) # <<>>

\* s ends with the characters of p
EndsWith(s, p) == Len(s) >= Len(p) /\ SubSeq(s, Len(s) - Len(p) + 1, Len(s)) = p

\* the vowels a syllable ends with, in lower case and without accents
TrailingVowels(s) ==
  strip_accents(lower(
    SliceFrom(s, Len(s) - Max({k \in 0..Len(s) :
                                 \A j \in (Len(s) - k + 1)..Len(s) : s[j] \in ItalianVowels}))))

\* C25: in the noun engine the vowels of a syllable are rendered by their
\* sequence alone, whatever the onset: a syllable that ends in its nucleus of
\* one or two vowels ends, rendered, in the base sound of the single vowel,
\* in the idiom of the two when they are one of the 13 diphthongs, and in the
\* base sounds of both when they are not.
C25_NucleusByItself ==
  (engine = "noun" /\ pc \in {"join", "done"}) =>
     \A n \in 1..Len(syllables) :
        Len(TrailingVowels(syllables[n])) \in {1, 2} =>
           EndsWith(lower(pron_parts[n]), WholeNucleusSound(TrailingVowels(syllables[n])))

----------------------------------------------------------------------------
(* The two engines against each other. *)

gue == <<"g","u","e">>

gui == <<"g","u","i">>

gua == <<"g","u","a">>

\* C26: on "gue" and "gui" the two engines return different strings, the
\* verb engine "GWEH" and "GWEE", the onset rendered "gw", the noun engine
\* "GEH" and "GEE", the onset rendered "g"; on "gua" both return "GWAH".
C26_GuBeforeFrontVowel ==
  pc = "returned" =>
     /\ phrase = gue =>
           result = IF engine = "verb" THEN <<"G","W","E","H">> ELSE <<"G","E","H">>
     /\ phrase = gui =>
           result = IF engine = "verb" THEN <<"G","W","E","E">> ELSE <<"G","E","E">>
     /\ phrase \in {gue, gui} => (StartsWith(result, <<"G","W">>) <=> engine = "verb")
     /\ phrase = gua => result = <<"G","W","A","H">>

\* C26 happens: the noun engine has returned its string for "gue", one
\* without the w of the verb engine's.
C26_Witness ==
  /\ pc = "returned"
  /\ engine = "noun"
  /\ phrase = gue
  /\ StartsWith(result, <<"G","E">>)

----------------------------------------------------------------------------
(* Shape of the syllables. *)

\* the number of maximal runs of vowels in s
VowelRuns(s) ==
  Cardinality({k \in 1..Len(s) :
                  /\ s[k] \in ItalianVowels
                  /\ (k = 1 \/ s[k - 1] \notin ItalianVowels)})

\* C27: in both engines, for a word with at least one vowel, syllabify
\* returns as many syllables as the word has maximal vowel runs, every
\* syllable holds exactly one vowel run, and every syllable after the first
\* begins with a consonant.
C27_SyllableShape ==
  (pc \in AfterSyllabify /\ HasVowel(word)) =>
     /\ Len(syllables) = VowelRuns(word)
     /\ \A n \in 1..Len(syllables) : VowelRuns(syllables[n]) = 1
     /\ \A n \in 2..Len(syllables) : LeadingConsonants(syllables[n]) # <<>>

\* C27 happens: a word of several vowel runs, one of them two vowels long
\* and followed by a cluster split between two syllables, has been
\* syllabified.
C27_Witness ==
  /\ pc = "stress"
  /\ VowelRuns(word) >= 2
  /\ Len(syllables) = VowelRuns(word)
  /\ \E n \in 1..(Len(syllables) - 1) :
        /\ TrailingConsonants(syllables[n]) # <<>>
        /\ Len(syllables[n]) - Len(LeadingConsonants(syllables[n]))
             - Len(TrailingConsonants(syllables[n])) = 2
        /\ LeadingConsonants(syllables[n + 1]) # <<>>

----------------------------------------------------------------------------
(* The loop of the noun engine's syllabify. *)

\* the loop of the noun engine's syllabify is running
InNounLoop == engine = "noun" /\ pc = "syllabify"

\* idx stays within the word, and the iterations done so far, one syllable
\* appended by each, are no more than the characters idx has passed
IdxInBounds ==
  InNounLoop => /\ idx \in 0..Len(word)
                /\ Len(syllables) <= idx

\* an iteration of the loop leaves idx strictly greater than it found it
IdxAdvances ==
  (InNounLoop /\ InNounLoop' /\ syllables' # syllables) =>
     /\ idx' > idx
     /\ idx' <= Len(word)
     /\ Len(syllables') = Len(syllables) + 1

\* the loop is left with idx = len(word)
LoopLeftAtEnd ==
  (InNounLoop /\ ~InNounLoop') => idx = Len(word) /\ idx' = idx

\* C28: the loop of the noun engine's syllabify terminates: every iteration
\* leaves idx strictly greater than at its start and at most len(word), so
\* the loop ends with idx = len(word) after at most len(word) iterations.
C28_LoopTerminates ==
  []IdxInBounds /\ [][IdxAdvances /\ LoopLeftAtEnd]_vars

\* C28 happens: the loop has reached the end of a word in two iterations or
\* more, one of which scanned over a cluster and set idx back inside it.
C28_Witness ==
  /\ InNounLoop
  /\ idx = Len(word)
  /\ Len(syllables) >= 2
  /\ \E n \in 1..(Len(syllables) - 1) :
        /\ TrailingConsonants(syllables[n]) # <<>>
        /\ LeadingConsonants(syllables[n + 1]) # <<>>

----------------------------------------------------------------------------
(* Shape of the respelling. *)

\* C29: in the verb engine, for a word token with no hyphen of its own, the
\* units of the output of pronounce_word that "-" separates are as many as
\* the syllables syllabify returned for the word.
C29_HyphensDelimit ==
  (/\ engine = "verb"
   /\ pc = "done"
   /\ word # <<>>
   /\ Occurrences(token, <<"-">>) = 0)
  => Occurrences(output, <<"-">>) + 1 = Len(syllables)

\* C30: in the verb engine the string convert_syllable returns for a
\* syllable never holds "yy" or "ww".
C30_GlidesCollapsed ==
  (engine = "verb" /\ pc \in {"join", "done"}) =>
     \A n \in 1..Len(pron_parts) :
        /\ Occurrences(lower(pron_parts[n]), <<"y","y">>) = 0
        /\ Occurrences(lower(pron_parts[n]), <<"w","w">>) = 0

====
